---- MODULE Spec2Model ----
(***************************************************************************)
(* Model of src/server/server.js: the Socket.io chat server.  The state is *)
(* the four module-level stores (users, messages, typingUsers, rooms), the *)
(* transport's room subscriptions (socket.join / socket.leave, and the     *)
(* private room every socket holds under its own id), the wall clock read  *)
(* by Date.now(), and the outbound events of the handler that ran last.    *)
(* Every socket.on handler is one action: Node runs a handler to           *)
(* completion before the next event is dispatched.                         *)
(***************************************************************************)
EXTENDS Integers, Sequences, FiniteSets, TLC

VARIABLES
    status,       \* connection id -> "fresh" | "connected" | "gone"
    users,        \* const users = {}        : connection id -> [username, rooms]
    messages,     \* const messages = []     : the message log
    typingUsers,  \* const typingUsers = {}  : connection id -> username
    rooms,        \* const rooms = {global}  : room name -> member set
    subs,         \* transport: connection id -> rooms the socket is subscribed to
    now,          \* the value Date.now() returns
    crashed,      \* a handler threw: the process ended on the uncaught exception
    emitted,      \* outbound events of the last handler, in emission order
    last,         \* the inbound event handled last
    nsent         \* history: number of messages ever pushed to the log

vars == <<status, users, messages, typingUsers, rooms, subs, now, crashed,
          emitted, last, nsent>>

stores == <<users, messages, typingUsers, rooms>>

----------------------------------------------------------------------------
(* Bounds and input sets *)

MaxSends == 1
MaxSendsLog == 102
MaxNowLog == 2

\* messages.length > 100
Capacity == 100

Conns == {"c1", "c2"}
Usernames == {"alice", "bob"}

\* Names that resolve on Object.prototype: rooms[name] is truthy for them
\* although the directory holds no such room.
ProtoKeys == {"constructor"}

\* join_room / leave_room arguments: falsy, the default room, a fresh name,
\* a name equal to a connection id, a prototype key.
JoinNames == {"", "global", "dev", "c2", "constructor"}

\* messageData.room: absent (or empty), a name no room ever has, a name
\* equal to a connection id (a room once joined), a prototype key.
SendRooms == {"", "ghost", "c2", "constructor"}

\* join_room / leave_room arguments of the routing runs
RouteNames == {"global", "c2"}

\* private_message targets: a connection id, or a room name sent as `to`
PmTargets == Conns \cup {"global"}

\* join_room / leave_room arguments that are empty or only whitespace
BlankNames == {"", " "}

----------------------------------------------------------------------------
(* Helpers *)

Connected(st) == {c \in Conns : st[c] = "connected"}

\* io.to(room): the sockets subscribed to room in the transport
InRoom(sb, room) == {c \in Conns : room \in sb[c]}

\* the truthiness of rooms[name] on a plain object
RoomTruthy(rs, name) == name \in DOMAIN rs \/ name \in ProtoKeys

\* users[socket.id]?.username || 'Anonymous'
SenderName(c) == IF c \in DOMAIN users THEN users[c].username ELSE "Anonymous"

\* Object.values(users) / Object.values(typingUsers), as the names they list
UserNames(us) == {us[c].username : c \in DOMAIN us}
TypingNames(tu) == {tu[c] : c \in DOMAIN tu}

Emit(ev, to, id, arg, names) ==
    [ev |-> ev, to |-> to, id |-> id, arg |-> arg, names |-> names]

Event(op, c, arg, id) == [op |-> op, conn |-> c, arg |-> arg, id |-> id]

\* the empty object {}
NoEntries == [x \in {} |-> ""]

\* delete obj[key]
Delete(f, key) == [x \in DOMAIN f \ {key} |-> f[x]]

\* obj[key] = value
Put(f, key, value) == [x \in DOMAIN f \cup {key} |-> IF x = key THEN value ELSE f[x]]

----------------------------------------------------------------------------
Init ==
    /\ status = [c \in Conns |-> "fresh"]
    /\ users = NoEntries
    /\ messages = <<>>
    /\ typingUsers = NoEntries
    /\ rooms = [r \in {"global"} |-> {}]
    /\ subs = [c \in Conns |-> {}]
    /\ now = 1
    /\ crashed = FALSE
    /\ emitted = <<>>
    /\ last = Event("start", "", "", 0)
    /\ nsent = 0

\* io.on('connection'): the transport puts the socket in the room of its own id
Connect(c) ==
    /\ ~crashed
    /\ status[c] = "fresh"
    /\ status' = [status EXCEPT ![c] = "connected"]
    /\ subs' = [subs EXCEPT ![c] = {c}]
    /\ emitted' = <<>>
    /\ last' = Event("connection", c, "", 0)
    /\ UNCHANGED <<users, messages, typingUsers, rooms, now, crashed, nsent>>

\* the wall clock advances by a millisecond; no handler runs
Tick(bound) ==
    /\ ~crashed
    /\ now < bound
    /\ now' = now + 1
    /\ emitted' = <<>>
    /\ last' = Event("tick", "", "", 0)
    /\ UNCHANGED <<status, users, messages, typingUsers, rooms, subs, crashed,
                   nsent>>

\* the entry user_join writes for the connection
NewUser(c, username) == [username |-> username, rooms |-> {"global"}]

\* socket.on('user_join')
UserJoin(c, username) ==
    /\ ~crashed
    /\ status[c] = "connected"
    /\ users' = Put(users, c, NewUser(c, username))
    /\ subs' = [subs EXCEPT ![c] = @ \cup {"global"}]
    /\ rooms' = [rooms EXCEPT !["global"] = @ \cup {c}]
    /\ emitted' = << Emit("user_list", Connected(status), 0, "", UserNames(users')),
                     Emit("user_joined", Connected(status), 0, c, {username}) >>
    /\ last' = Event("user_join", c, username, 0)
    /\ UNCHANGED <<status, messages, typingUsers, now, crashed, nsent>>

\* messageData?.room || 'global'
DefaultRoom(room) == IF room = "" THEN "global" ELSE room

\* a send_message handler that ignores messageData.room
NewMessageGlobalOnly(c, room) ==
    [id |-> now,
     sender |-> SenderName(c),
     senderId |-> c,
     room |-> "global",
     readBy |-> {},
     seq |-> nsent + 1]

\* the message object send_message builds (id: Date.now(), room defaulted)
NewMessage(c, room) ==
    [id |-> now,
     sender |-> SenderName(c),
     senderId |-> c,
     room |-> DefaultRoom(room),
     readBy |-> {},
     seq |-> nsent + 1]

\* a log that evicts one message too early
EvictAtCapacity(log) == IF Len(log) >= Capacity THEN Tail(log) ELSE log

\* if (messages.length > 100) messages.shift()
Evict(log) == IF Len(log) > Capacity THEN Tail(log) ELSE log

\* the recipients of receive_message: io.to(room) when rooms[room] is truthy,
\* io.emit otherwise
FanOut(room) ==
    IF RoomTruthy(rooms, room) THEN InRoom(subs, room) ELSE Connected(status)

\* an ack that reports the number of messages sent instead of the id
AckCount(c, withAck, id) ==
    IF withAck THEN << Emit("ack", {c}, nsent + 1, "", {}) >> ELSE <<>>

\* the ack callback, when the client passed one
Ack(c, withAck, id) ==
    IF withAck THEN << Emit("ack", {c}, id, "", {}) >> ELSE <<>>

\* socket.on('send_message')
SendMessage(c, room, withAck) ==
    LET message == NewMessage(c, room) IN
    /\ ~crashed
    /\ status[c] = "connected"
    /\ messages' = Evict(Append(messages, message))
    /\ nsent' = nsent + 1
    /\ emitted' = Ack(c, withAck, message.id) \o
                  << Emit("receive_message", FanOut(message.room), message.id,
                          message.room, {message.sender}) >>
    /\ last' = Event("send_message", c, room, message.id)
    /\ UNCHANGED <<status, users, typingUsers, rooms, subs, now, crashed>>

\* a typing store that never removes an entry on typing(false)
SetTypingKeep(c, isTyping) ==
    IF isTyping THEN Put(typingUsers, c, users[c].username)
    ELSE typingUsers

\* the typing store after typing(isTyping) from a registered connection
SetTyping(c, isTyping) ==
    IF isTyping THEN Put(typingUsers, c, users[c].username)
    ELSE Delete(typingUsers, c)

\* socket.on('typing')
Typing(c, isTyping) ==
    /\ ~crashed
    /\ status[c] = "connected"
    /\ IF c \in DOMAIN users
       THEN /\ typingUsers' = SetTyping(c, isTyping)
            /\ emitted' = << Emit("typing_users", Connected(status), 0, "",
                                  TypingNames(typingUsers')) >>
       ELSE /\ UNCHANGED typingUsers
            /\ emitted' = <<>>
    /\ last' = Event("typing", c, IF isTyping THEN "true" ELSE "false", 0)
    /\ UNCHANGED <<status, users, messages, rooms, subs, now, crashed, nsent>>

\* users[socket.id]?.rooms?.add(roomName)
CacheAdd(us, c, room) ==
    IF c \in DOMAIN us THEN [us EXCEPT ![c].rooms = @ \cup {room}] ELSE us

\* users[socket.id]?.rooms?.delete(roomName)
CacheDelete(us, c, room) ==
    IF c \in DOMAIN us THEN [us EXCEPT ![c].rooms = @ \ {room}] ELSE us

\* rooms[roomName].members.add(socket.id), the room created when absent
MembersAdd(rs, c, room) ==
    Put(rs, room, (IF room \in DOMAIN rs THEN rs[room] ELSE {}) \cup {c})

\* rooms[roomName].members.delete(socket.id)
MembersDelete(rs, c, room) == [rs EXCEPT ![room] = @ \ {c}]

\* socket.on('join_room')
JoinRoom(c, room) ==
    /\ ~crashed
    /\ status[c] = "connected"
    /\ last' = Event("join_room", c, room, 0)
    /\ IF room = ""
       THEN /\ emitted' = <<>>
            /\ UNCHANGED <<rooms, subs, users, crashed>>
       ELSE IF room \notin DOMAIN rooms /\ room \in ProtoKeys
       THEN \* rooms[roomName] is the inherited property: no room is created,
            \* socket.join runs, then .members.add throws a TypeError
            /\ subs' = [subs EXCEPT ![c] = @ \cup {room}]
            /\ crashed' = TRUE
            /\ emitted' = <<>>
            /\ UNCHANGED <<rooms, users>>
       ELSE /\ subs' = [subs EXCEPT ![c] = @ \cup {room}]
            /\ rooms' = MembersAdd(rooms, c, room)
            /\ users' = CacheAdd(users, c, room)
            /\ emitted' = << Emit("room_notification", InRoom(subs', room), 0,
                                  room, {SenderName(c)}) >>
            /\ UNCHANGED crashed
    /\ UNCHANGED <<status, messages, typingUsers, now, nsent>>

\* socket.on('leave_room')
LeaveRoom(c, room) ==
    /\ ~crashed
    /\ status[c] = "connected"
    /\ last' = Event("leave_room", c, room, 0)
    /\ IF room = "" \/ ~RoomTruthy(rooms, room)
       THEN /\ emitted' = <<>>
            /\ UNCHANGED <<rooms, subs, users, crashed>>
       ELSE IF room \notin DOMAIN rooms
       THEN \* inherited property: socket.leave runs, .members.delete throws
            /\ subs' = [subs EXCEPT ![c] = @ \ {room}]
            /\ crashed' = TRUE
            /\ emitted' = <<>>
            /\ UNCHANGED <<rooms, users>>
       ELSE /\ subs' = [subs EXCEPT ![c] = @ \ {room}]
            /\ rooms' = MembersDelete(rooms, c, room)
            /\ users' = CacheDelete(users, c, room)
            /\ emitted' = << Emit("room_notification", InRoom(subs', room), 0,
                                  room, {SenderName(c)}) >>
            /\ UNCHANGED crashed
    /\ UNCHANGED <<status, messages, typingUsers, now, nsent>>

\* socket.on('private_message')
PrivateMessage(c, to, withAck) ==
    /\ ~crashed
    /\ status[c] = "connected"
    /\ emitted' = << Emit("private_message", InRoom(subs, to) \ {c}, now, to,
                          {SenderName(c)}),
                     Emit("private_message", {c}, now, to, {SenderName(c)}) >>
                  \o Ack(c, withAck, now)
    /\ last' = Event("private_message", c, to, now)
    /\ UNCHANGED <<status, users, messages, typingUsers, rooms, subs, now,
                   crashed, nsent>>

\* a lookup that falls back to the oldest message when nothing matches
FindOrOldest(log, messageId) ==
    LET hits == {i \in 1..Len(log) : log[i].id = messageId} IN
    IF hits = {} THEN (IF Len(log) > 0 THEN 1 ELSE 0)
    ELSE CHOOSE i \in hits : \A j \in hits : i <= j

\* messages.find((m) => m.id === messageId): the index of the first match, 0 if none
Find(log, messageId) ==
    LET hits == {i \in 1..Len(log) : log[i].id = messageId} IN
    IF hits = {} THEN 0 ELSE CHOOSE i \in hits : \A j \in hits : i <= j

\* socket.on('message_read')
MessageRead(c, messageId) ==
    LET i == Find(messages, messageId) IN
    /\ ~crashed
    /\ status[c] = "connected"
    /\ last' = Event("message_read", c, "", messageId)
    /\ IF i = 0
       THEN /\ emitted' = <<>>
            /\ UNCHANGED messages
       ELSE /\ messages' = [messages EXCEPT ![i].readBy = @ \cup {c}]
            /\ emitted' = << Emit("message_read", InRoom(subs, messages[i].senderId),
                                  messageId, c, {SenderName(c)}) >>
    /\ UNCHANGED <<status, users, typingUsers, rooms, subs, now, crashed, nsent>>

\* a cleanup that only leaves the default room
RemoveFromGlobal(rs, c) == [rs EXCEPT !["global"] = @ \ {c}]

\* Object.values(rooms).forEach((room) => room.members.delete(socket.id))
RemoveEverywhere(rs, c) == [r \in DOMAIN rs |-> rs[r] \ {c}]

\* the body of the disconnect listener; st is the connection table when it
\* runs (the socket has already left the namespace)
DisconnectHandler(c, st) ==
    /\ rooms' = RemoveEverywhere(rooms, c)
    /\ users' = Delete(users, c)
    /\ typingUsers' = Delete(typingUsers, c)
    /\ emitted' = (IF c \in DOMAIN users
                   THEN << Emit("user_left", Connected(st), 0, c,
                                {users[c].username}) >>
                   ELSE <<>>)
                  \o << Emit("user_list", Connected(st), 0, "", UserNames(users')),
                        Emit("typing_users", Connected(st), 0, "",
                             TypingNames(typingUsers')) >>
    /\ UNCHANGED <<messages, now, crashed, nsent>>

\* the socket closes: the transport empties its subscriptions, then
\* socket.on('disconnect') runs
Disconnect(c) ==
    /\ ~crashed
    /\ status[c] = "connected"
    /\ status' = [status EXCEPT ![c] = "gone"]
    /\ subs' = [subs EXCEPT ![c] = {}]
    /\ last' = Event("disconnect", c, "", 0)
    /\ DisconnectHandler(c, status')

\* the disconnect listener run a second time for the connection whose
\* disconnect was processed last
DisconnectAgain(c) ==
    /\ ~crashed
    /\ status[c] = "gone"
    /\ last.op = "disconnect" /\ last.conn = c
    /\ UNCHANGED <<status, subs>>
    /\ last' = Event("disconnect", c, "repeat", 0)
    /\ DisconnectHandler(c, status)

----------------------------------------------------------------------------
(* Presence and rooms: every connection event, room event and typing event, *)
(* with no message traffic.                                                 *)
Next ==
    \/ \E c \in Conns : Connect(c)
    \/ \E c \in Conns, u \in Usernames : UserJoin(c, u)
    \/ \E c \in Conns, b \in BOOLEAN : Typing(c, b)
    \/ \E c \in Conns, r \in JoinNames : JoinRoom(c, r)
    \/ \E c \in Conns, r \in JoinNames : LeaveRoom(c, r)
    \/ \E c \in Conns : Disconnect(c)
    \/ \E c \in Conns : DisconnectAgain(c)

Spec == Init /\ [][Next]_vars

(* Message routing: sends, private messages and read receipts among        *)
(* connections that join and leave rooms, at one reading of the clock.      *)
NextMsg ==
    \/ \E c \in Conns : Connect(c)
    \/ \E c \in Conns : UserJoin(c, "alice")
    \/ \E c \in Conns, r \in RouteNames : JoinRoom(c, r)
    \/ \E c \in Conns, r \in RouteNames : LeaveRoom(c, r)
    \/ \E c \in Conns, r \in SendRooms :
          nsent < MaxSends /\ SendMessage(c, r, TRUE)
    \/ \E c \in Conns, t \in PmTargets : PrivateMessage(c, t, TRUE)
    \/ \E c \in Conns, i \in 0..1 : MessageRead(c, i)
    \/ \E c \in Conns : Disconnect(c)

SpecMsg == Init /\ [][NextMsg]_vars

(* The message log: one connected, registered sender fills the log past    *)
(* its capacity while the clock advances, and marks messages read.          *)
InitLog ==
    /\ status = [c \in Conns |-> IF c = "c1" THEN "connected" ELSE "fresh"]
    /\ users = Put(NoEntries, "c1", NewUser("c1", "alice"))
    /\ messages = <<>>
    /\ typingUsers = NoEntries
    /\ rooms = [r \in {"global"} |-> {"c1"}]
    /\ subs = [c \in Conns |-> IF c = "c1" THEN {"c1", "global"} ELSE {}]
    /\ now = 1
    /\ crashed = FALSE
    /\ emitted = <<>>
    /\ last = Event("start", "", "", 0)
    /\ nsent = 0

NextLog ==
    \/ Tick(MaxNowLog)
    \/ \E a \in BOOLEAN : nsent < MaxSendsLog /\ SendMessage("c1", "", a)
    \/ \E i \in 0..1 : MessageRead("c1", i)

SpecLog == InitLog /\ [][NextLog]_vars

(* Room names: joins and leaves with empty and whitespace-only names.       *)
NextNames ==
    \/ \E c \in Conns : Connect(c)
    \/ \E c \in Conns, u \in Usernames : UserJoin(c, u)
    \/ \E c \in Conns, r \in BlankNames : JoinRoom(c, r)
    \/ \E c \in Conns, r \in BlankNames : LeaveRoom(c, r)
    \/ \E c \in Conns : Disconnect(c)

SpecNames == Init /\ [][NextNames]_vars

----------------------------------------------------------------------------
(* Properties *)

\* the receive_message emission of the send_message handled last
Delivery == emitted[Len(emitted)]

\* the room the send_message handled last addressed
Target == DefaultRoom(last.arg)

\* the message the send_message handled last stored
StoredLast == messages[Len(messages)]

\* C1: after every event, a connection is in a room's member set iff it is
\* registered and the room is in its cached room set.
CacheMatchesMembership ==
    /\ \A c \in Conns, r \in DOMAIN rooms :
          c \in rooms[r] <=> (c \in DOMAIN users /\ r \in users[c].rooms)
    /\ \A c \in DOMAIN users : users[c].rooms \subseteq DOMAIN rooms

\* C2: every member of every room is a key of the users registry.
MembersAreRegistered ==
    \A r \in DOMAIN rooms : rooms[r] \subseteq DOMAIN users

\* C3: the log holds at most Capacity messages and is exactly the most recent
\* min(n, Capacity) of the n messages ever stored, in insertion order.
LogIsRecentWindow ==
    /\ Len(messages) <= Capacity
    /\ Len(messages) = (IF nsent < Capacity THEN nsent ELSE Capacity)
    /\ \A i \in 1..Len(messages) : messages[i].seq = nsent - Len(messages) + i

\* C3 witness: a send_message arrived at a full log and evicted the oldest.
LogEvicted ==
    /\ last.op = "send_message"
    /\ nsent > Capacity
    /\ Len(messages) = Capacity
    /\ messages[1].seq = nsent - Capacity + 1

\* C4: a message appended before another has the smaller id.
IdsStrictlyIncrease ==
    \A i \in 1..(Len(messages) - 1) : messages[i].id < messages[i + 1].id

\* C5: after a disconnect the connection is absent from users, from every
\* member set and from typingUsers, and running the disconnect handler again
\* right away changes none of users, rooms, typingUsers, messages.
DisconnectIsIdempotent ==
    /\ [](last.op = "disconnect" =>
            /\ last.conn \notin DOMAIN users
            /\ last.conn \notin DOMAIN typingUsers
            /\ \A r \in DOMAIN rooms : last.conn \notin rooms[r])
    /\ [][(last'.op = "disconnect" /\ last'.arg = "repeat") =>
            UNCHANGED stores]_vars

\* C5 witness: the handler ran a second time while another user is still
\* registered, in a room and typing.
DisconnectedTwice ==
    /\ last.op = "disconnect" /\ last.arg = "repeat"
    /\ \E d \in DOMAIN users :
          /\ d \in DOMAIN typingUsers
          /\ \E r \in DOMAIN rooms : r # "global" /\ d \in rooms[r]

\* C6: a message_read whose id matches no retained message raises no error,
\* changes no store and emits nothing.
UnknownReadIsNoOp ==
    [][(/\ last'.op = "message_read"
        /\ \A k \in 1..Len(messages) : messages[k].id # last'.id)
       => (UNCHANGED stores /\ crashed' = crashed /\ emitted' = <<>>)]_vars

\* C6 witness: a read of id 1 when the full log has evicted every message of
\* that millisecond.
ReadOfEvictedId ==
    /\ last.op = "message_read" /\ last.id = 1
    /\ nsent > Capacity
    /\ \A k \in 1..Len(messages) : messages[k].id # 1
    /\ emitted = <<>>

\* C7: a send_message naming a room of the directory is delivered to exactly
\* that room's members.
RoomSendReachesExactlyMembers ==
    (last.op = "send_message" /\ Target \in DOMAIN rooms)
        => Delivery.to = rooms[Target]

\* C8: a send_message naming a room that is not in the directory is delivered
\* to every connected connection.
UnknownRoomIsBroadcast ==
    (last.op = "send_message" /\ Target \notin DOMAIN rooms)
        => Delivery.to = Connected(status)

\* C9 as stated: a send_message from a connection outside an existing room
\* reaches none of its members and stores nothing for that room.
NonMemberCannotSend ==
    (/\ last.op = "send_message"
     /\ Target \in DOMAIN rooms
     /\ last.conn \notin rooms[Target])
        => /\ Delivery.to \cap rooms[Target] = {}
           /\ ~(StoredLast.seq = nsent /\ StoredLast.room = Target)

\* C9 amended: a send_message from a connection outside an existing room is
\* carried out like any other: the message is stored last in the log under
\* that room with the sender's id, and every member of the room receives it.
NonMemberSendIsRouted ==
    (/\ last.op = "send_message"
     /\ Target \in DOMAIN rooms
     /\ last.conn \notin rooms[Target])
        => /\ StoredLast.seq = nsent
           /\ StoredLast.room = Target
           /\ StoredLast.senderId = last.conn
           /\ rooms[Target] \subseteq Delivery.to

\* C9 witness: a non-member sent to a created room that has a member.
NonMemberSent ==
    /\ last.op = "send_message"
    /\ Target \in DOMAIN rooms /\ Target # "global"
    /\ last.conn \notin rooms[Target]
    /\ rooms[Target] # {}

\* C10: a user_join from a registered connection leaves the registry as it
\* was and broadcasts no user_list or user_joined to other connections.
RepeatedJoinIsRejected ==
    [][(last'.op = "user_join" /\ last'.conn \in DOMAIN users) =>
          /\ users' = users
          /\ \A k \in 1..Len(emitted') :
                emitted'[k].ev \in {"user_list", "user_joined"}
                    => emitted'[k].to \subseteq {last'.conn}]_vars

\* C11: read marking is idempotent: the sender of a retained message gets one
\* message_read notification per reader, so a message_read from a reader
\* already in readBy notifies nobody again; the reader is in readBy afterwards
\* and readBy never loses an element while the message is retained.
ReadMarkingIsIdempotent ==
    [][(/\ last'.op = "message_read"
        /\ Find(messages, last'.id) # 0)
       => LET i == Find(messages, last'.id) IN
          /\ messages[i].readBy \subseteq messages'[i].readBy
          /\ last'.conn \in messages'[i].readBy
          /\ last'.conn \in messages[i].readBy => emitted' = <<>>
          /\ (/\ last'.conn \notin messages[i].readBy
              /\ status[messages[i].senderId] = "connected")
             => /\ Len(emitted') = 1
                /\ messages[i].senderId \in emitted'[1].to]_vars

\* C12: a private_message is never appended to the log and reaches at most
\* its sender and the connection it is addressed to.
PrivateStaysPrivate ==
    [][last'.op = "private_message" =>
          /\ messages' = messages
          /\ \A k \in 1..Len(emitted') :
                emitted'[k].ev = "private_message"
                    => emitted'[k].to \subseteq {last'.conn, last'.arg}]_vars

\* C13: a send_message or private_message from a connection that is not in
\* the users registry appends nothing and delivers nothing.
UnregisteredSenderIsIgnored ==
    [][(/\ last'.op \in {"send_message", "private_message"}
        /\ last'.conn \notin DOMAIN users)
       => /\ messages' = messages
          /\ \A k \in 1..Len(emitted') :
                emitted'[k].ev \notin {"receive_message", "private_message"}]_vars

\* C14: a send_message that carries no room, or a room name that is not in
\* the directory, is stored with room 'global'.
UnknownRoomIsStoredAsGlobal ==
    (last.op = "send_message" /\ Target \notin DOMAIN rooms)
        => (StoredLast.seq = nsent /\ StoredLast.room = "global")

\* C15: a join_room whose name is empty or only whitespace creates no room,
\* changes no member set or cached room set and emits no room_notification.
BlankJoinIsRejected ==
    [][(last'.op = "join_room" /\ last'.arg \in BlankNames) =>
          /\ rooms' = rooms
          /\ users' = users
          /\ emitted' = <<>>]_vars

\* C16: every key of typingUsers is a registered connection; a typing event
\* from an unregistered connection changes nothing and broadcasts nothing;
\* typing(false) and disconnect leave the connection without a typing entry.
TypingKeysAreRegistered ==
    /\ [](DOMAIN typingUsers \subseteq DOMAIN users)
    /\ []((last.op = "typing" /\ last.arg = "false")
            => last.conn \notin DOMAIN typingUsers)
    /\ [](last.op = "disconnect" => last.conn \notin DOMAIN typingUsers)
    /\ [][(last'.op = "typing" /\ last'.conn \notin DOMAIN users)
            => (UNCHANGED stores /\ emitted' = <<>>)]_vars

\* C16 witness: a registered connection that was typing sent typing(false)
\* while another connection is still typing.
TypingStopped ==
    /\ last.op = "typing" /\ last.arg = "false"
    /\ last.conn \in DOMAIN users
    /\ typingUsers # NoEntries

\* C17: the message_read notification for a retained message goes only to the
\* connection that sent that message.
ReadReceiptOnlyToSender ==
    \A k \in 1..Len(emitted) :
        emitted[k].ev = "message_read" =>
            \A c \in emitted[k].to :
                \E i \in 1..Len(messages) :
                    messages[i].id = emitted[k].id /\ messages[i].senderId = c

\* C18 as stated: the ack carries the id of the message stored by the same
\* event, and the first message after start-up, sent with no room, is stored
\* with room 'global' and id 1 and acknowledged with id 1.
FirstMessageHasIdOne ==
    last.op = "send_message" =>
        /\ StoredLast.seq = nsent
        /\ emitted[1].ev = "ack" => emitted[1].id = StoredLast.id
        /\ (nsent = 1 /\ last.arg = "") =>
              /\ StoredLast.room = "global"
              /\ StoredLast.id = 1
              /\ emitted[1].ev = "ack" => emitted[1].id = 1

\* C18 amended: the ack carries the id of the message stored by the same
\* event, and the first message after start-up, sent with no room, is stored
\* with room 'global' and with the clock reading of its handling as id, which
\* the ack carries.
AckCarriesStoredId ==
    last.op = "send_message" =>
        /\ StoredLast.seq = nsent
        /\ emitted[1].ev = "ack" =>
              (emitted[1].id = StoredLast.id /\ emitted[1].to = {last.conn})
        /\ (nsent = 1 /\ last.arg = "") =>
              /\ StoredLast.room = "global"
              /\ StoredLast.id = now
              /\ emitted[1].ev = "ack" => emitted[1].id = now

\* C18 witness: the first message was sent after the clock had advanced and
\* was acknowledged.
FirstMessageAcked ==
    /\ last.op = "send_message" /\ last.arg = ""
    /\ nsent = 1
    /\ now > 1
    /\ emitted[1].ev = "ack"

\* C19: every typing entry holds the username the registry records for its
\* connection.
TypingNameIsCurrent ==
    \A c \in DOMAIN typingUsers :
        c \in DOMAIN users /\ typingUsers[c] = users[c].username

\* C20: for every room of the directory the transport delivers io.to(room) to
\* exactly the room's members.
TransportMatchesDirectory ==
    \A r \in DOMAIN rooms : InRoom(subs, r) = rooms[r]
====
